---- MODULE Spec2Model ----
(***************************************************************************)
(* Model of the PCIDSS oracle gateway, pcidss/oracle/src/services/rpc.rs:  *)
(* the four RPC methods of OracleApiImpl (submit_iso8583,                  *)
(* get_transactions, get_bank_account, get_batch_balances), the collapse   *)
(* of DomainError onto ErrorCode, and the canonical message that           *)
(* get_batch_balances verifies the OCW signature against.                  *)
(*                                                                         *)
(* Bytes are naturals below 256, a String or Vec<u8> is a sequence of      *)
(* bytes.  A signature is abstracted to (its length in bytes, the key that *)
(* produced it, the message bytes it was produced over); sr25519::verify   *)
(* accepts it exactly for that key and those bytes.                        *)
(*                                                                         *)
(* The server runs handlers concurrently: every call in Calls has its own  *)
(* locals, and a handler gives way to the other calls at each await.  The  *)
(* dispatcher shares nothing between calls but the signer and the Store;   *)
(* the Store is changed by the Message Processor when a submission         *)
(* succeeds, so a handler may see it change from one await to the next.    *)
(***************************************************************************)
EXTENDS Naturals, Sequences, FiniteSets

VARIABLES
    signer,     \* OracleApiImpl.signer: the configured OCW public key
    store,      \* the bank accounts behind bank_account_controller
    transactions, \* the transactions behind transaction_controller, in Store order
    calls       \* per call, the locals of its handler:
                \*   pc           "idle" | "transactions" (get_transactions, between its two
                \*                awaits) | "lookup" (in the loop of get_batch_balances) | "done"
                \*   method       the RPC method called
                \*   params       its parameters
                \*   bank_account get_transactions: the account the card number resolved to
                \*   message      get_batch_balances: the canonical message built
                \*   verified     get_batch_balances: sr25519::verify returned true
                \*   idx          get_batch_balances: position of the loop over account_ids
                \*   balances     get_batch_balances: the Vec being accumulated
                \*   lookups      the Store / processor calls made so far, with their replies
                \*   processed    submit_iso8583: the buffer handed to processor.process
                \*   result       the RpcResult returned

vars == <<signer, store, transactions, calls>>

(***************************** bounds **************************************)
\* longest account_ids list of a call to the gateway (specification Spec)
MaxBatch == 3
\* longest ISO8583 buffer
MaxBufLen == 1
\* longest identifier and longest list when identifiers are arbitrary byte strings
MaxIdLen == 3
MaxIds == 2

(***************************** values **************************************)
LBracket == 91
RBracket == 93
Quote == 34
Comma == 44
SignatureLen == 64

DomainErrors == {"ApiError", "InternalServerError", "BadRequest", "NotFound"}
ErrorCodes == {"InternalError", "InvalidParams"}

\* Result<T, DomainError> of a collaborator
Ok(v) == [ok |-> TRUE, val |-> v, err |-> "none"]
Err(e) == [ok |-> FALSE, val |-> <<>>, err |-> e]
\* Option<T>
None == [some |-> FALSE, val |-> <<>>]
Some(v) == [some |-> TRUE, val |-> v]
\* RpcResult<T>
RpcOk(v) == [ok |-> TRUE, val |-> v, code |-> "none"]
RpcErr(c) == [ok |-> FALSE, val |-> <<>>, code |-> c]
Pending == [ok |-> FALSE, val |-> <<>>, code |-> "pending"]

SeqsUpTo(S, n) == UNION {[1..k -> S] : k \in 0..n}

Keys == {"ocw", "other"}
\* the calls in flight on the server
Calls == {1, 2}
BankIds == 1..2
CardNumbers == <<"4111", "4222">>
UnknownCard == "4999"
\* on-chain account ids "a", "b"
AccountIds == << <<97>>, <<98>> >>
AccountIdPool == {AccountIds[k] : k \in BankIds}
\* the balance of each account
Balances == <<10, 20>>
Alphabet == {Quote, Comma, 92, 97}
ByteIds == SeqsUpTo(Alphabet, MaxIdLen)
IsoBuffers == SeqsUpTo({0, 255}, MaxBufLen)

BankAccount(k) ==
    [id |-> k, card_number |-> CardNumbers[k], balance |-> Balances[k],
     account_id |-> AccountIds[k], nonce |-> 0]
\* the Store when the server starts: the accounts whose create succeeded, each
\* with nonce 0, and no Transaction (only a processed submission records one)
Stores == { {BankAccount(k) : k \in present} : present \in SUBSET BankIds }
Transaction(n, owner) == [id |-> n, bank_account_id |-> owner]

(************************* collaborators ***********************************)
FindByCardNumber(s, card_number) ==
    LET m == {ba \in s : ba.card_number = card_number}
    IN IF m = {} THEN None ELSE Some(CHOOSE ba \in m : TRUE)

FindByAccountId(s, account_id) ==
    LET m == {ba \in s : ba.account_id = account_id}
    IN IF m = {} THEN None ELSE Some(CHOOSE ba \in m : TRUE)

FindByBankAccountId(txs, id) == SelectSeq(txs, LAMBDA t : t.bank_account_id = id)

\* the amounts a processed message may take from an account
Amounts == {5}

\* the Store after a successful process: unchanged, or one account debited (its
\* nonce advanced) and the Transaction of it recorded
Processed(s, txs) ==
    { <<s, txs>> } \cup
    UNION { { << (s \ {ba}) \cup {[ba EXCEPT !.balance = @ - amount, !.nonce = @ + 1]},
                 Append(txs, Transaction(Len(txs) + 1, ba.id)) >> :
                amount \in {a \in Amounts : ba.balance >= a} } :
            ba \in s }

\* what a Store call may return: its answer, or a failure of any kind
StoreReplies(answer) == {Ok(answer)} \cup {Err(e) : e \in DomainErrors}

\* sr25519::verify(&Signature(signature), message, public_key)
Verify(signature, msg, public_key) ==
    signature.signer = public_key /\ signature.msg = msg

\* the locals of a call that has not started
IdleCall ==
    [pc |-> "idle", method |-> "none", params |-> <<>>, bank_account |-> <<>>,
     message |-> <<>>, verified |-> FALSE, idx |-> 0, balances |-> <<>>,
     lookups |-> <<>>, processed |-> <<>>, result |-> Pending]

(************************* submit_iso8583 **********************************)
ProcessorInput(iso_msg) == iso_msg

ErrorCodeOfBug(err) ==
    IF err = "ApiError" THEN "InternalError" ELSE "InvalidParams"

ErrorCodeOf(err) ==
    CASE err = "ApiError" -> "InternalError"
      [] err = "InternalServerError" -> "InternalError"
      [] err = "BadRequest" -> "InvalidParams"
      [] err = "NotFound" -> "InvalidParams"

SubmitIso8583ResultBug(iso_msg, reply) ==
    IF reply.ok THEN RpcOk(iso_msg) ELSE RpcErr(ErrorCodeOf(reply.err))

SubmitIso8583Result(iso_msg, reply) ==
    IF reply.ok THEN RpcOk(reply.val[1]) ELSE RpcErr(ErrorCodeOf(reply.err))

ProcessReplies ==
    {Ok(<<b, m>>) : b \in IsoBuffers, m \in {"meta"}} \cup {Err(e) : e \in DomainErrors}

SubmitIso8583(c) ==
    /\ calls[c].pc = "idle"
    /\ \E iso_msg \in IsoBuffers, reply \in ProcessReplies :
        /\ calls' = [calls EXCEPT ![c] =
            [IdleCall EXCEPT
                !.pc = "done",
                !.method = "submit_iso8583",
                !.params = [iso_msg |-> iso_msg],
                !.processed = ProcessorInput(iso_msg),
                !.lookups = << [call |-> "process", arg |-> ProcessorInput(iso_msg),
                                reply |-> reply] >>,
                !.result = SubmitIso8583Result(iso_msg, reply)]]
        /\ IF reply.ok
             THEN \E after \in Processed(store, transactions) :
                    store' = after[1] /\ transactions' = after[2]
             ELSE UNCHANGED <<store, transactions>>
    /\ UNCHANGED signer

(************************* get_transactions ********************************)
\* the card-number lookup of get_transactions: .map_err(|_| InvalidParams)?.ok_or(InvalidParams)?
CardLookupResult(reply) ==
    IF ~reply.ok THEN RpcErr("InvalidParams")
    ELSE IF ~reply.val.some THEN RpcErr("InvalidParams")
    ELSE RpcOk(reply.val.val)

\* the match of the map_err closure on find_by_bank_account_id
TxErrorCodeOf(err) ==
    CASE err = "ApiError" -> "InternalError"
      [] err = "InternalServerError" -> "InternalError"
      [] err = "BadRequest" -> "InvalidParams"
      [] err = "NotFound" -> "InvalidParams"

TransactionsResult(reply) ==
    IF reply.ok THEN RpcOk(reply.val) ELSE RpcErr(TxErrorCodeOf(reply.err))

\* from the entry of get_transactions through its first await (find_by_card_number):
\* the call returns InvalidParams, or holds the account and goes on to the second await
GetTransactions(c) ==
    /\ calls[c].pc = "idle"
    /\ \E card_number \in {CardNumbers[k] : k \in BankIds} \cup {UnknownCard} :
       \E reply \in StoreReplies(FindByCardNumber(store, card_number)) :
        LET bank_account == CardLookupResult(reply)
            started == [IdleCall EXCEPT
                !.method = "get_transactions",
                !.params = [card_number |-> card_number],
                !.lookups = << [call |-> "find_by_card_number", arg |-> card_number,
                                reply |-> reply] >>]
        IN
        calls' = [calls EXCEPT ![c] =
            IF ~bank_account.ok
              THEN [started EXCEPT !.pc = "done", !.result = bank_account]
              ELSE [started EXCEPT !.pc = "transactions", !.bank_account = bank_account.val]]
    /\ UNCHANGED <<signer, store, transactions>>

\* the second await of get_transactions (find_by_bank_account_id) and the return
GetTransactionsLookup(c) ==
    /\ calls[c].pc = "transactions"
    /\ \E reply \in StoreReplies(FindByBankAccountId(transactions, calls[c].bank_account.id)) :
        calls' = [calls EXCEPT ![c] =
            [@ EXCEPT
                !.pc = "done",
                !.lookups = Append(@, [call |-> "find_by_bank_account_id",
                                       arg |-> calls[c].bank_account.id, reply |-> reply]),
                !.result = TransactionsResult(reply)]]
    /\ UNCHANGED <<signer, store, transactions>>

(************************* get_bank_account ********************************)
BankAccountResultBug(reply) ==
    IF ~reply.ok THEN RpcErr(ErrorCodeOf(reply.err))
    ELSE IF ~reply.val.some THEN RpcErr("InvalidParams")
    ELSE RpcOk(reply.val.val)

BankAccountResult(reply) ==
    IF ~reply.ok THEN RpcErr("InvalidParams")
    ELSE IF ~reply.val.some THEN RpcErr("InvalidParams")
    ELSE RpcOk(reply.val.val)

GetBankAccount(c) ==
    /\ calls[c].pc = "idle"
    /\ \E card_number \in {CardNumbers[k] : k \in BankIds} \cup {UnknownCard} :
       \E reply \in StoreReplies(FindByCardNumber(store, card_number)) :
        calls' = [calls EXCEPT ![c] =
            [IdleCall EXCEPT
                !.pc = "done",
                !.method = "get_bank_account",
                !.params = [card_number |-> card_number],
                !.lookups = << [call |-> "find_by_card_number", arg |-> card_number,
                                reply |-> reply] >>,
                !.result = BankAccountResult(reply)]]
    /\ UNCHANGED <<signer, store, transactions>>

(************************* get_batch_balances ******************************)
\* signature.try_into(): Vec<u8> -> [u8; 64]
DecodeSignature(signature) == signature.len = SignatureLen

RECURSIVE PushIds(_, _)
\* the for loop that pushes "id", for every account id
PushIds(msg, account_ids) ==
    IF account_ids = <<>> THEN msg
    ELSE PushIds(msg \o <<Quote>> \o Head(account_ids) \o <<Quote, Comma>>, Tail(account_ids))

\* Vec::pop: drops the last element, if any
Pop(v) == IF v = <<>> THEN v ELSE SubSeq(v, 1, Len(v) - 1)

CanonicalMessage(account_ids) ==
    Pop(PushIds(<<LBracket>>, account_ids)) \o <<RBracket>>

AuthenticateBug(signature, account_ids, public_key) ==
    Verify(signature, CanonicalMessage(account_ids), public_key)

\* lines 127-148: the call goes on to the Store only when this is TRUE
Authenticate(signature, account_ids, public_key) ==
    /\ DecodeSignature(signature)
    /\ Verify(signature, CanonicalMessage(account_ids), public_key)

\* the map_err closure on find_by_account_id
LookupErrorCode(err) == "InvalidParams"

BalancesPushBug(bals, account_id, ba) ==
    IF ba.some THEN Append(bals, <<account_id, ba.val.balance>>)
    ELSE Append(bals, <<account_id, 0>>)

\* if let Some(ba) = ba { balances.push((account_id, ba.balance)) }
BalancesPush(bals, account_id, ba) ==
    IF ba.some THEN Append(bals, <<account_id, ba.val.balance>>) ELSE bals

LookupFailedBug(bals, reply) == RpcOk(bals)

\* the ? on a failed find_by_account_id
LookupFailed(bals, reply) == RpcErr(LookupErrorCode(reply.err))

\* from the entry of get_batch_balances to its first await (or early return)
GetBatchBalancesCall(c, signature, account_ids) ==
    LET started == [IdleCall EXCEPT
            !.method = "get_batch_balances",
            !.params = [signature |-> signature, account_ids |-> account_ids],
            !.message = IF DecodeSignature(signature)
                          THEN CanonicalMessage(account_ids) ELSE <<>>,
            !.verified = Authenticate(signature, account_ids, signer)]
    IN
    /\ calls' = [calls EXCEPT ![c] =
        IF ~Authenticate(signature, account_ids, signer)
          THEN [started EXCEPT !.pc = "done", !.result = RpcErr("InvalidParams")]
          ELSE IF account_ids = <<>>
                 THEN [started EXCEPT !.pc = "done", !.result = RpcOk(<<>>)]
                 ELSE [started EXCEPT !.pc = "lookup", !.idx = 1]]
    /\ UNCHANGED <<signer, store, transactions>>

\* one iteration of the loop over account_ids: one await of find_by_account_id
GetBatchBalancesLookup(c) ==
    /\ calls[c].pc = "lookup"
    /\ LET k == calls[c]
           account_id == k.params.account_ids[k.idx]
       IN
       \E reply \in StoreReplies(FindByAccountId(store, account_id)) :
        LET looked == [k EXCEPT !.lookups = Append(@, [call |-> "find_by_account_id",
                                                       arg |-> account_id, reply |-> reply])]
            pushed == BalancesPush(k.balances, account_id, reply.val)
        IN
        calls' = [calls EXCEPT ![c] =
            IF ~reply.ok
              THEN [looked EXCEPT !.pc = "done", !.result = LookupFailed(k.balances, reply)]
              ELSE IF k.idx = Len(k.params.account_ids)
                     THEN [looked EXCEPT !.pc = "done", !.balances = pushed,
                                         !.result = RpcOk(pushed)]
                     ELSE [looked EXCEPT !.balances = pushed, !.idx = k.idx + 1]]
    /\ UNCHANGED <<signer, store, transactions>>

\* the signatures a caller may send with a list: truncated or full-size, made by
\* either key, over one of the given messages
Signatures(msgs) ==
    [len : {SignatureLen - 1, SignatureLen}, signer : Keys, msg : msgs]

\* a message with its last byte changed
Tamper(msg) == [msg EXCEPT ![Len(msg)] = 0]

\* every reordering of a list
Reorderings(s) ==
    { [i \in 1..Len(s) |-> s[p[i]]] :
        p \in {q \in [1..Len(s) -> 1..Len(s)] : \A i, j \in 1..Len(s) : q[i] = q[j] => i = j} }

\* calls with the on-chain ids the Store may know
GetBatchBalances(c) ==
    /\ calls[c].pc = "idle"
    /\ \E account_ids \in SeqsUpTo(AccountIdPool, MaxBatch) :
       \E signature \in Signatures({CanonicalMessage(account_ids),
                                    Tamper(CanonicalMessage(account_ids))}) :
        GetBatchBalancesCall(c, signature, account_ids)

\* calls with arbitrary byte strings as ids, signed for any order of the list
GetBatchBalancesBytes(c) ==
    /\ calls[c].pc = "idle"
    /\ \E account_ids \in SeqsUpTo(ByteIds, MaxIds) :
       \E signature \in Signatures({CanonicalMessage(l) : l \in Reorderings(account_ids)}) :
        GetBatchBalancesCall(c, signature, account_ids)

Init ==
    /\ signer \in Keys
    /\ store \in Stores
    /\ transactions = <<>>
    /\ calls = [c \in Calls |-> IdleCall]

Next ==
    \E c \in Calls :
        \/ SubmitIso8583(c)
        \/ GetTransactions(c)
        \/ GetTransactionsLookup(c)
        \/ GetBankAccount(c)
        \/ GetBatchBalances(c)
        \/ GetBatchBalancesLookup(c)

Spec == Init /\ [][Next]_vars

\* the batch query alone, one call, on identifiers that are arbitrary byte strings
InitBytes ==
    /\ Init
    /\ signer = "ocw"
    /\ store = {BankAccount(k) : k \in BankIds}

NextBytes == GetBatchBalancesBytes(1) \/ GetBatchBalancesLookup(1)

SpecBytes == InitBytes /\ [][NextBytes]_vars
(***************************** properties **********************************)
IsBatch(k) == k.method = "get_batch_balances"
Resolves(account_id) == \E ba \in store : ba.account_id = account_id
AllLookupsOk(k) == \A i \in 1..Len(k.lookups) : k.lookups[i].reply.ok
SomeLookupFailed(k) == \E i \in 1..Len(k.lookups) : ~k.lookups[i].reply.ok

\* the other call has started while this one ran
Interleaved(c) == \E d \in Calls \ {c} : calls[d].pc # "idle"

RECURSIVE FoundEntries(_)
\* the (id, balance) entries of the lookups that found an account, in lookup order
FoundEntries(looks) ==
    IF looks = <<>> THEN <<>>
    ELSE (IF Head(looks).reply.val.some
            THEN << <<Head(looks).arg, Head(looks).reply.val.val.balance>> >>
            ELSE <<>>) \o FoundEntries(Tail(looks))

\* C1: a get_batch_balances call whose signature verified and whose Store
\* lookups all succeeded looked up exactly the input ids, in input order, and
\* returns exactly the entries of the ids whose lookup found an account, in
\* input order with duplicates kept, each with the balance of the account that
\* find_by_account_id returned for it; the ids returned are exactly the input
\* ids the Store holds an account for, so an id that does not resolve
\* contributes nothing and is never returned.
C1_ResolvedSubsequence ==
    \A c \in Calls : LET k == calls[c] IN
    (IsBatch(k) /\ k.pc = "done" /\ k.verified /\ AllLookupsOk(k)) =>
        /\ k.result.ok
        /\ [i \in 1..Len(k.lookups) |-> k.lookups[i].arg] = k.params.account_ids
        /\ k.result.val = FoundEntries(k.lookups)
        /\ [i \in 1..Len(k.result.val) |-> k.result.val[i][1]]
              = SelectSeq(k.params.account_ids, Resolves)
        /\ \A i \in 1..Len(k.result.val) : Resolves(k.result.val[i][1])

\* the second id does not resolve, the first and third are the same account,
\* whose balance a submission changed between the two lookups
C1_Witness ==
    \E c \in Calls : LET k == calls[c] IN
    /\ IsBatch(k) /\ k.pc = "done" /\ k.verified /\ AllLookupsOk(k)
    /\ Len(k.params.account_ids) = 3
    /\ Resolves(k.params.account_ids[1])
    /\ ~Resolves(k.params.account_ids[2])
    /\ k.params.account_ids[3] = k.params.account_ids[1]
    /\ k.result.ok /\ Len(k.result.val) = 2
    /\ k.result.val[1][2] # k.result.val[2][2]
    /\ Interleaved(c)

\* the signature of the call is not a full-size signature by the configured
\* OCW key over the canonical message of the requested ids
BadSignature(k) ==
    \/ k.params.signature.len # SignatureLen
    \/ k.params.signature.signer # signer
    \/ k.params.signature.msg # CanonicalMessage(k.params.account_ids)

\* C2: a get_batch_balances call whose signature has the wrong size or does not
\* verify returns InvalidParams in both cases, performs no Store lookup and
\* returns no balance; Store lookups happen only in calls whose signature verified.
C2_RejectedBeforeLookup ==
    \A c \in Calls : LET k == calls[c] IN
    IsBatch(k) =>
        /\ BadSignature(k) =>
            /\ k.pc = "done"
            /\ ~k.result.ok /\ k.result.code = "InvalidParams"
            /\ k.lookups = <<>> /\ k.balances = <<>> /\ k.result.val = <<>>
        /\ k.lookups # <<>> => ~BadSignature(k)

C2_Witness ==
    \E c \in Calls : LET k == calls[c] IN
    /\ IsBatch(k) /\ k.pc = "done"
    /\ k.params.signature.len = SignatureLen
    /\ k.params.signature.signer # signer
    /\ k.params.signature.msg = CanonicalMessage(k.params.account_ids)
    /\ k.params.account_ids # <<>>
    /\ k.result.code = "InvalidParams" /\ k.lookups = <<>>

\* C3: when the Message Processor fails, submit_iso8583 returns an error, never
\* a success payload, whose code is InternalError for ApiError and
\* InternalServerError and InvalidParams for BadRequest and NotFound.
C3_DomainFailureMapping ==
    \A c \in Calls : LET k == calls[c] IN
    (k.method = "submit_iso8583" /\ ~k.lookups[1].reply.ok) =>
        /\ ~k.result.ok
        /\ k.result.code \in ErrorCodes
        /\ k.lookups[1].reply.err \in {"ApiError", "InternalServerError"}
              => k.result.code = "InternalError"
        /\ k.lookups[1].reply.err \in {"BadRequest", "NotFound"}
              => k.result.code = "InvalidParams"

C3_Witness ==
    \E c \in Calls : LET k == calls[c] IN
    /\ k.method = "submit_iso8583"
    /\ ~k.lookups[1].reply.ok /\ k.lookups[1].reply.err = "InternalServerError"
    /\ ~k.result.ok /\ k.result.code = "InternalError"

\* C4: if any Store lookup of a get_batch_balances call fails, the call is over
\* and returns a caller-facing error and no list, wherever the failing id stands
\* and however many earlier ids had resolved; a list shorter than the input is
\* returned only when every lookup succeeded and some id did not resolve.
C4_FailedLookupAborts ==
    \A c \in Calls : LET k == calls[c] IN
    IsBatch(k) =>
        /\ SomeLookupFailed(k) =>
            /\ k.pc = "done"
            /\ ~k.result.ok /\ k.result.code \in ErrorCodes /\ k.result.val = <<>>
        /\ (k.result.ok /\ Len(k.result.val) < Len(k.params.account_ids)) =>
            /\ AllLookupsOk(k)
            /\ \E i \in 1..Len(k.params.account_ids) : ~Resolves(k.params.account_ids[i])

C4_Witness ==
    \E c \in Calls : LET k == calls[c] IN
    /\ IsBatch(k) /\ k.pc = "done"
    /\ Len(k.lookups) = 3 /\ ~k.lookups[3].reply.ok
    /\ Len(k.balances) = 2
    /\ ~k.result.ok

\* JSON string escaping of one byte of an identifier
JsonEscape(b) ==
    IF b = Quote THEN <<92, Quote>> ELSE IF b = 92 THEN <<92, 92>> ELSE <<b>>

RECURSIVE JsonString(_)
JsonString(str) ==
    IF str = <<>> THEN <<>> ELSE JsonEscape(Head(str)) \o JsonString(Tail(str))

RECURSIVE JsonItems(_)
JsonItems(strs) ==
    IF strs = <<>> THEN <<>>
    ELSE <<Quote>> \o JsonString(Head(strs)) \o <<Quote>>
         \o (IF Tail(strs) = <<>> THEN <<>> ELSE <<Comma>>) \o JsonItems(Tail(strs))

\* the JSON array of a list of strings, without whitespace
JsonArray(strs) == <<LBracket>> \o JsonItems(strs) \o <<RBracket>>

\* C5: for every non-empty list of identifiers, also ones that contain '"', ','
\* or '\', the message get_batch_balances verifies the signature against is
\* the whitespace-free JSON array of the list, in input order.
C5_MessageIsJsonArray ==
    \A c \in Calls : LET k == calls[c] IN
    (IsBatch(k) /\ DecodeSignature(k.params.signature) /\ k.params.account_ids # <<>>) =>
        k.message = JsonArray(k.params.account_ids)

\* C6: for every non-empty list and every reordering that is a different list,
\* the canonical message of the reordering differs from that of the list, and a
\* signature made over the reordering's message is not accepted for the list.
C6_OrderChangesMessage ==
    \A c \in Calls : LET k == calls[c] IN
    (IsBatch(k) /\ DecodeSignature(k.params.signature) /\ k.params.account_ids # <<>>) =>
        \A l \in Reorderings(k.params.account_ids) :
            l # k.params.account_ids =>
                /\ CanonicalMessage(l) # k.message
                /\ k.params.signature.msg = CanonicalMessage(l) => ~k.verified

\* C7: get_batch_balances with an empty account_ids list returns a
\* caller-facing error, never a success payload, whatever the signature.
C7_EmptyListRejected ==
    \A c \in Calls : LET k == calls[c] IN
    (IsBatch(k) /\ k.pc = "done" /\ k.params.account_ids = <<>>) => ~k.result.ok

\* C8: get_bank_account returns InvalidParams, and nothing else, both when the
\* card number resolves to no account and when the Store lookup fails with any
\* domain failure; when the account is found it returns that account, the one
\* find_by_card_number returned for the card number asked for.
C8_UniformInvalidParams ==
    \A c \in Calls : LET k == calls[c] IN
    k.method = "get_bank_account" =>
        LET reply == k.lookups[1].reply IN
        /\ ~reply.ok =>
            ~k.result.ok /\ k.result.code = "InvalidParams" /\ k.result.val = <<>>
        /\ (reply.ok /\ ~reply.val.some) =>
            ~k.result.ok /\ k.result.code = "InvalidParams" /\ k.result.val = <<>>
        /\ (reply.ok /\ reply.val.some) =>
            /\ k.result.ok
            /\ k.result.val = reply.val.val
            /\ k.lookups[1].arg = k.params.card_number
            /\ k.result.val.card_number = k.params.card_number

C8_Witness ==
    \E c \in Calls : LET k == calls[c] IN
    /\ k.method = "get_bank_account"
    /\ ~k.lookups[1].reply.ok /\ k.lookups[1].reply.err = "ApiError"
    /\ ~k.result.ok /\ k.result.code = "InvalidParams"

\* the table of section 4.4
TableCode(err) ==
    IF err \in {"ApiError", "InternalServerError"} THEN "InternalError" ELSE "InvalidParams"

\* C9: in get_transactions a card number that resolves to no account yields
\* InvalidParams, and a Store failure of either lookup (find_by_card_number,
\* find_by_bank_account_id) yields the code the section 4.4 table gives its kind.
C9_FailuresMappedByKind ==
    \A c \in Calls : LET k == calls[c] IN
    (k.method = "get_transactions" /\ k.pc = "done") =>
        /\ (k.lookups[1].reply.ok /\ ~k.lookups[1].reply.val.some) =>
            ~k.result.ok /\ k.result.code = "InvalidParams"
        /\ \A i \in 1..Len(k.lookups) :
            ~k.lookups[i].reply.ok =>
                ~k.result.ok /\ k.result.code = TableCode(k.lookups[i].reply.err)

\* C10: submit_iso8583 hands the Message Processor exactly the caller's bytes,
\* and when the processor succeeds it returns exactly the processor's response bytes.
C10_PassThrough ==
    \A c \in Calls : LET k == calls[c] IN
    k.method = "submit_iso8583" =>
        /\ k.processed = k.params.iso_msg
        /\ k.lookups[1].arg = k.params.iso_msg
        /\ k.lookups[1].reply.ok =>
            k.result.ok /\ k.result.val = k.lookups[1].reply.val[1]

C10_Witness ==
    \E c \in Calls : LET k == calls[c] IN
    /\ k.method = "submit_iso8583"
    /\ k.lookups[1].reply.ok
    /\ Len(k.params.iso_msg) = 1
    /\ k.lookups[1].reply.val[1] # k.params.iso_msg
    /\ k.result.ok /\ k.result.val = k.lookups[1].reply.val[1]
====
